---- MODULE Spec2Model ----
(***************************************************************************)
(* A model of zkvm/precompiles/src/secp256r1.rs (the zkvm target branch of  *)
(* every cfg_if): public-key decompression, the Shamir combinator           *)
(* double_and_add_base, verify_signature and the two-phase ecrecover with   *)
(* its hint channel.                                                        *)
(*                                                                          *)
(* The arithmetic is that of the source, on a scaled-down curve: a prime    *)
(* field of 4 bits instead of 256, a curve of prime order n < p with        *)
(* cofactor 1 (as P-256), scalars and coordinates serialised as NUM_BYTES   *)
(* big-endian bytes of BYTE_BITS bits, points packed in NUM_WORDS           *)
(* little-endian words.                                                     *)
(***************************************************************************)
EXTENDS Integers, Sequences, FiniteSets, TLC

VARIABLES pc, inp, loop, vst, chan, hint, out, calls

vars == <<pc, inp, loop, vst, chan, hint, out, calls>>

----------------------------------------------------------------------------
(* Curve and encoding parameters (scaled). *)

\* field prime p of the curve y^2 = x^3 + a x + b
FIELD_P == 11
CURVE_A == 6
CURVE_B == 6
\* the (prime) order n of the group, n < p
ORDER == 7
\* affine coordinates of the base point
GEN_X == 2
GEN_Y == 2

\* bits per byte, bytes per scalar / coordinate, bytes per word, words per point
BYTE_BITS == 1
NUM_BYTES == 4
WORD_BYTES == 2
NUM_WORDS == 4

BYTE_BASE == 2 ^ BYTE_BITS
NUM_BITS == NUM_BYTES * BYTE_BITS
COORD_WORDS == NUM_WORDS \div 2
REPR_MAX == (2 ^ NUM_BITS) - 1

Repr == 0 .. REPR_MAX
Scalars == 0 .. (ORDER - 1)
NonZeroScalars == 1 .. (ORDER - 1)

----------------------------------------------------------------------------
(* Options, as in Rust: None, Some(v). *)

None == <<>>
Some(v) == <<v>>
IsSome(o) == o # <<>>
Unwrap(o) == o[1]

----------------------------------------------------------------------------
(* Sequences of bytes. *)

Reverse(s) == [i \in 1 .. Len(s) |-> s[Len(s) + 1 - i]]

RECURSIVE BeToInt(_)
BeToInt(bs) ==
    IF Len(bs) = 0 THEN 0
    ELSE BeToInt(SubSeq(bs, 1, Len(bs) - 1)) * BYTE_BASE + bs[Len(bs)]

\* the k-byte big-endian encoding of v
IntToBe(v, k) == [i \in 1 .. k |-> (v \div (BYTE_BASE ^ (k - i))) % BYTE_BASE]

\* u32::to_le_bytes of one word
WordToLeBytes(w) == [i \in 1 .. WORD_BYTES |-> (w \div (BYTE_BASE ^ (i - 1))) % BYTE_BASE]

\* a word from its little-endian bytes
LeBytesToWord(bs) == BeToInt(Reverse(bs))

----------------------------------------------------------------------------
(* Arithmetic modulo the field prime and the group order, and the group    *)
(* law of the curve: the mathematics the library (p256) and the curve      *)
(* primitives implement.                                                   *)

ModInv(v, m) == CHOOSE w \in 0 .. (m - 1) : (w * (v % m)) % m = 1 \/ (v % m = 0 /\ w = 0)

\* the point at infinity, and affine points <<x, y>>
Inf == <<>>

OnCurve(P) ==
    /\ Len(P) = 2
    /\ P[1] \in 0 .. (FIELD_P - 1)
    /\ P[2] \in 0 .. (FIELD_P - 1)
    /\ (P[2] * P[2]) % FIELD_P = (P[1] * P[1] * P[1] + CURVE_A * P[1] + CURVE_B) % FIELD_P

CurvePoints == {P \in (0 .. (FIELD_P - 1)) \X (0 .. (FIELD_P - 1)) : OnCurve(P)}

Neg(P) == IF P = Inf THEN Inf ELSE <<P[1], (FIELD_P - P[2]) % FIELD_P>>

GroupAdd(P, Q) ==
    IF P = Inf THEN Q
    ELSE IF Q = Inf THEN P
    ELSE IF P[1] = Q[1] /\ (P[2] + Q[2]) % FIELD_P = 0 THEN Inf
    ELSE LET lam == IF P = Q
                    THEN ((3 * P[1] * P[1] + CURVE_A) * ModInv(2 * P[2], FIELD_P)) % FIELD_P
                    ELSE ((Q[2] - P[2] + FIELD_P) * ModInv(Q[1] - P[1] + FIELD_P, FIELD_P)) % FIELD_P
             x3 == (lam * lam + 2 * FIELD_P - P[1] - Q[1]) % FIELD_P
             y3 == (lam * (P[1] + FIELD_P - x3) + FIELD_P - P[2]) % FIELD_P
         IN <<x3, y3>>

\* k.P by k successive additions (the independent reference multiplication)
RECURSIVE ScalarMul(_, _)
ScalarMul(k, P) == IF k = 0 THEN Inf ELSE GroupAdd(ScalarMul(k - 1, P), P)

G == <<GEN_X, GEN_Y>>

----------------------------------------------------------------------------
(* The point codec (AffinePoint): NUM_WORDS little-endian words, x first.  *)

CoordToWords(v) ==
    LET le == Reverse(IntToBe(v, NUM_BYTES))
    IN [i \in 1 .. COORD_WORDS |->
            LeBytesToWord(SubSeq(le, (i - 1) * WORD_BYTES + 1, i * WORD_BYTES))]

RECURSIVE WordsToLeBytes(_)
WordsToLeBytes(ws) ==
    IF Len(ws) = 0 THEN <<>>
    ELSE WordToLeBytes(ws[1]) \o WordsToLeBytes(Tail(ws))

WordsToCoord(ws) == BeToInt(Reverse(WordsToLeBytes(ws)))

\* AffinePoint::from(x_le_bytes, y_le_bytes)
AffineFrom(x_le, y_le) ==
    [i \in 1 .. NUM_WORDS |->
        IF i <= COORD_WORDS
        THEN LeBytesToWord(SubSeq(x_le, (i - 1) * WORD_BYTES + 1, i * WORD_BYTES))
        ELSE LeBytesToWord(SubSeq(y_le, (i - COORD_WORDS - 1) * WORD_BYTES + 1,
                                        (i - COORD_WORDS) * WORD_BYTES))]

LimbsOf(P) == CoordToWords(P[1]) \o CoordToWords(P[2])
PointOf(limbs) == <<WordsToCoord(SubSeq(limbs, 1, COORD_WORDS)),
                    WordsToCoord(SubSeq(limbs, COORD_WORDS + 1, NUM_WORDS))>>

\* What a curve primitive leaves in the limbs when its contract cannot be
\* met (an operand off the curve, or a sum that is the point at infinity,
\* which has no coordinate pair): unspecified words.
Unspecified == [i \in 1 .. NUM_WORDS |-> -1]

IsCurveLimbs(limbs) == limbs # Unspecified /\ OnCurve(PointOf(limbs))

\* CurveOperations::GENERATOR
GENERATOR == LimbsOf(G)

\* CurveOperations::add_assign: limbs := limbs + other
add_assign(limbs, other) ==
    IF IsCurveLimbs(limbs) /\ IsCurveLimbs(other)
       /\ GroupAdd(PointOf(limbs), PointOf(other)) # Inf
    THEN LimbsOf(GroupAdd(PointOf(limbs), PointOf(other)))
    ELSE Unspecified

\* CurveOperations::double: limbs := 2 limbs
double(limbs) ==
    IF IsCurveLimbs(limbs) /\ GroupAdd(PointOf(limbs), PointOf(limbs)) # Inf
    THEN LimbsOf(GroupAdd(PointOf(limbs), PointOf(limbs)))
    ELSE Unspecified

----------------------------------------------------------------------------
(* double_and_add_base *)

\* Scalar::to_le_bits: the full NUM_BITS bits, least significant first
to_le_bits(a) == [i \in 1 .. NUM_BITS |-> (a \div (2 ^ (i - 1))) % 2]

\* lines 161-163: res = None, temp_A = *A, temp_B = *B
LoopInit(A, B) == [res |-> None, temp_A |-> A, temp_B |-> B, i |-> 0]

\* a slip: the empty accumulator is left empty instead of initialised
Accumulate_NoInit(res, temp) ==
    IF IsSome(res) THEN Some(add_assign(Unwrap(res), temp)) ELSE None

\* lines 168-173 / 175-180: add the running copy, or initialise the accumulator
Accumulate(res, temp) ==
    IF IsSome(res) THEN Some(add_assign(Unwrap(res), temp)) ELSE Some(temp)

\* lines 167-184: one iteration of the loop, on bit st.i of a and of b
LoopBody(st, a, b) ==
    LET a_bit == to_le_bits(a)[st.i + 1]
        b_bit == to_le_bits(b)[st.i + 1]
        r1 == IF a_bit = 1 THEN Accumulate(st.res, st.temp_A) ELSE st.res
        r2 == IF b_bit = 1 THEN Accumulate(r1, st.temp_B) ELSE r1
    IN [res |-> r2, temp_A |-> double(st.temp_A), temp_B |-> double(st.temp_B),
        i |-> st.i + 1]

RECURSIVE RunLoop(_, _, _)
RunLoop(st, a, b) == IF st.i = NUM_BITS THEN st ELSE RunLoop(LoopBody(st, a, b), a, b)

double_and_add_base(a, A, b, B) == RunLoop(LoopInit(A, B), a, b).res

----------------------------------------------------------------------------
(* Outcomes of a call: nothing yet, a returned value, or a panic (abort).  *)

NoOutcome == [kind |-> "none", val |-> "none"]
Ret(v) == [kind |-> "ret", val |-> v]
Panic(site) == [kind |-> "panic", val |-> site]
Ok(v) == [kind |-> "Ok", val |-> v]
Err(msg) == [kind |-> "Err", val |-> msg]

NoLoop == [res |-> None, temp_A |-> Unspecified, temp_B |-> Unspecified, i |-> 0]
NoVst == [affine |-> Unspecified, z |-> 0, s_inv |-> 0, u1 |-> 0, u2 |-> 0]
NoHint == [key |-> <<>>, s_inv |-> <<>>]

----------------------------------------------------------------------------
(* Library conversions used by verify_signature. *)

\* ecdsa::hazmat::bits2field: Err below half the field size, left-padded
\* when short, truncated when long
bits2field(bits) ==
    IF 2 * Len(bits) < NUM_BYTES THEN None
    ELSE IF Len(bits) < NUM_BYTES
         THEN Some([i \in 1 .. (NUM_BYTES - Len(bits)) |-> 0] \o bits)
         ELSE Some(SubSeq(bits, 1, NUM_BYTES))

\* Scalar::from_repr: the scalar, or nothing when the value is not below the order
from_repr(bytes) == IF BeToInt(bytes) < ORDER THEN Some(BeToInt(bytes)) ELSE None

\* Scalar::to_bytes
to_bytes(v) == IntToBe(v, NUM_BYTES)

----------------------------------------------------------------------------
(* verify_signature, in the steps of its zkvm branch. *)

\* lines 90-108: the public key and the message hash become an affine point
\* and the scalar z
DecodeStage(pubkey, msg_hash) ==
    LET fx == bits2field(SubSeq(pubkey, 2, NUM_BYTES + 1))
        fy == bits2field(SubSeq(pubkey, NUM_BYTES + 2, 2 * NUM_BYTES + 1))
        field == bits2field(msg_hash)
    IN IF ~IsSome(fx) THEN [ok |-> FALSE, out |-> Panic("unwrap:90"), st |-> NoVst]
       ELSE IF ~IsSome(from_repr(Unwrap(fx)))
       THEN [ok |-> FALSE, out |-> Panic("unwrap:90"), st |-> NoVst]
       ELSE IF ~IsSome(fy) THEN [ok |-> FALSE, out |-> Panic("unwrap:91"), st |-> NoVst]
       ELSE IF ~IsSome(from_repr(Unwrap(fy)))
       THEN [ok |-> FALSE, out |-> Panic("unwrap:91"), st |-> NoVst]
       ELSE IF ~IsSome(field) THEN [ok |-> FALSE, out |-> Ret(FALSE), st |-> NoVst]
       ELSE IF ~IsSome(from_repr(Unwrap(field)))
       THEN [ok |-> FALSE, out |-> Panic("unwrap:107"), st |-> NoVst]
       ELSE [ok |-> TRUE, out |-> NoOutcome,
             st |-> [NoVst EXCEPT
                !.affine = AffineFrom(Reverse(to_bytes(Unwrap(from_repr(Unwrap(fx))))),
                                      Reverse(to_bytes(Unwrap(from_repr(Unwrap(fy)))))),
                !.z = Unwrap(from_repr(Unwrap(field)))]]

\* a slip: the supplied inverse is used without the assert_eq
CheckedInverse_NoAssert(s_inverse, s) ==
    IF IsSome(s_inverse) THEN Some(Unwrap(s_inverse)) ELSE Some(ModInv(s, ORDER))

\* lines 111-120: the supplied inverse, validated, or the computed one;
\* None stands for the failed assert_eq
CheckedInverse(s_inverse, s) ==
    IF IsSome(s_inverse)
    THEN IF (Unwrap(s_inverse) * s) % ORDER = 1 THEN Some(Unwrap(s_inverse)) ELSE None
    ELSE Some(ModInv(s, ORDER))

\* a slip: a refused inverse is reported as a failed verification
InverseStage_ReturnsFalse(st, r, s, s_inverse) ==
    LET si == CheckedInverse(s_inverse, s)
    IN IF ~IsSome(si) THEN [ok |-> FALSE, out |-> Ret(FALSE), st |-> st]
       ELSE [ok |-> TRUE, out |-> NoOutcome,
             st |-> [st EXCEPT !.s_inv = Unwrap(si),
                               !.u1 = (st.z * Unwrap(si)) % ORDER,
                               !.u2 = (r * Unwrap(si)) % ORDER]]

\* lines 109-123
InverseStage(st, r, s, s_inverse) ==
    LET si == CheckedInverse(s_inverse, s)
    IN IF ~IsSome(si) THEN [ok |-> FALSE, out |-> Panic("assert_eq:113"), st |-> st]
       ELSE [ok |-> TRUE, out |-> NoOutcome,
             st |-> [st EXCEPT !.s_inv = Unwrap(si),
                               !.u1 = (st.z * Unwrap(si)) % ORDER,
                               !.u2 = (r * Unwrap(si)) % ORDER]]

\* The values a read of the x limbs can give: the limbs' own, or any when
\* the primitive left them unspecified.
XReads(res) ==
    IF IsSome(res) /\ Unwrap(res) = Unspecified THEN Repr ELSE {0}

\* lines 125-136: unwrap the combined point, take its x limbs as big-endian
\* bytes and compare with r
CompareStage(res, r, xread) ==
    IF ~IsSome(res) THEN Panic("unwrap:125")
    ELSE LET x_bytes_be ==
                 IF Unwrap(res) = Unspecified THEN to_bytes(xread)
                 ELSE Reverse(WordsToLeBytes(SubSeq(Unwrap(res), 1, COORD_WORDS)))
             x_field == bits2field(x_bytes_be)
         IN IF ~IsSome(x_field) THEN Ret(FALSE)
            ELSE IF ~IsSome(from_repr(Unwrap(x_field))) THEN Panic("unwrap:136")
            ELSE Ret(r = Unwrap(from_repr(Unwrap(x_field))))

\* the whole function; xread resolves the read of unspecified limbs
verify_signature(pubkey, msg_hash, r, s, s_inverse, xread) ==
    LET d == DecodeStage(pubkey, msg_hash)
        v == InverseStage(d.st, r, s, s_inverse)
    IN IF ~d.ok THEN d.out
       ELSE IF ~v.ok THEN v.out
       ELSE CompareStage(double_and_add_base(v.st.u1, GENERATOR, v.st.u2, v.st.affine),
                         r, xread)

\* the values xread may take for these arguments
VerifyReads(pubkey, msg_hash, r, s, s_inverse) ==
    LET d == DecodeStage(pubkey, msg_hash)
        v == InverseStage(d.st, r, s, s_inverse)
    IN IF d.ok /\ v.ok
       THEN XReads(double_and_add_base(v.st.u1, GENERATOR, v.st.u2, v.st.affine))
       ELSE {0}

\* SEC1 encodings of an affine point
Uncompressed(P) == <<4>> \o IntToBe(P[1], NUM_BYTES) \o IntToBe(P[2], NUM_BYTES)
Compressed(P) == <<2 + (P[2] % 2)>> \o IntToBe(P[1], NUM_BYTES)

----------------------------------------------------------------------------
(* decompress_pubkey (zkvm branch). *)

\* syscall_secp256r1_decompress: the y of the given parity for the x in the
\* first half of the buffer; it fails (None) when no point of the curve has
\* that x
syscall_secp256r1_decompress(x_bytes, is_odd) ==
    LET x == BeToInt(x_bytes)
        ys == {y \in 0 .. (FIELD_P - 1) : OnCurve(<<x, y>>) /\ (y % 2 = 1) = is_odd}
    IN IF x < FIELD_P /\ ys # {}
       THEN Some(IntToBe(CHOOSE y \in ys : TRUE, NUM_BYTES))
       ELSE None

\* a slip: the parity bytes are read the other way round
decompress_pubkey_ParitySwapped(compressed_key) ==
    IF compressed_key[1] \notin {2, 3} THEN Err("Invalid compressed key")
    ELSE LET x_bytes == SubSeq(compressed_key, 2, NUM_BYTES + 1)
             y == syscall_secp256r1_decompress(x_bytes, compressed_key[1] = 2)
         IN IF ~IsSome(y) THEN Panic("syscall_secp256r1_decompress")
            ELSE Ok(<<4>> \o x_bytes \o Unwrap(y))

\* lines 52-66
decompress_pubkey(compressed_key) ==
    IF compressed_key[1] \notin {2, 3} THEN Err("Invalid compressed key")
    ELSE LET x_bytes == SubSeq(compressed_key, 2, NUM_BYTES + 1)
             y == syscall_secp256r1_decompress(x_bytes, compressed_key[1] = 3)
         IN IF ~IsSome(y) THEN Panic("syscall_secp256r1_decompress")
            ELSE Ok(<<4>> \o x_bytes \o Unwrap(y))

----------------------------------------------------------------------------
(* The library calls of the unconstrained block. *)

\* Signature::from_slice: r and s, both in 1 .. order-1
signature_from_slice(r_bytes, s_bytes) ==
    IF /\ IsSome(from_repr(r_bytes)) /\ IsSome(from_repr(s_bytes))
       /\ BeToInt(r_bytes) # 0 /\ BeToInt(s_bytes) # 0
    THEN Some(<<BeToInt(r_bytes), BeToInt(s_bytes)>>)
    ELSE None

\* Signature::normalize_s: the low-s form of a high-s signature
normalize_s(s) == IF s > ORDER \div 2 THEN Some(ORDER - s) ELSE None

\* RecoveryId::from_byte
recovery_id_from_byte(b) == IF b < 4 THEN Some(b) ELSE None

\* recovery_id ^= 1
FlipLowBit(b) == IF b % 2 = 0 THEN b + 1 ELSE b - 1

\* VerifyingKey::recover_from_prehash: R from r (plus the order when the id
\* says x was reduced) and the parity bit, then r^-1 (s R - z G)
recover_from_prehash(msg_hash, r, s, recid) ==
    LET z == BeToInt(Unwrap(bits2field(msg_hash))) % ORDER
        x == IF recid >= 2 THEN r + ORDER ELSE r
        Rs == {P \in CurvePoints : P[1] = x /\ P[2] % 2 = recid % 2}
        R == CHOOSE P \in Rs : TRUE
        r_inv == ModInv(r, ORDER)
        u1 == (ORDER - ((r_inv * z) % ORDER)) % ORDER
        u2 == (r_inv * s) % ORDER
        pk == GroupAdd(ScalarMul(u1, G), ScalarMul(u2, R))
    IN IF x > REPR_MAX \/ Rs = {} THEN None
       ELSE IF pk = Inf THEN None
       ELSE Some(pk)

----------------------------------------------------------------------------
(* unconstrained_ecrecover and ecrecover. *)

\* line 206: VerifyingKey::to_sec1_bytes encodes the key as the curve's
\* PointCompression::COMPRESS_POINTS says; p256 declares it false for
\* NistP256 (k256 declares it true for secp256k1), so the bytes are the
\* uncompressed encoding: 1 + 2 * NUM_BYTES bytes
to_sec1_bytes(P) == Uncompressed(P)

\* lines 207 and 211: the two io::hint_slice calls, in their order
HintOrder(key_bytes, s_inverse_bytes) == <<key_bytes, s_inverse_bytes>>

\* lines 196-211: what the unconstrained block hints, or where it panics
Phase1(sig, msg_hash) ==
    LET parsed == signature_from_slice(sig.r, sig.s)
        r == Unwrap(parsed)[1]
        s0 == Unwrap(parsed)[2]
        norm == normalize_s(s0)
        s == IF IsSome(norm) THEN Unwrap(norm) ELSE s0
        recovery_id == IF IsSome(norm) THEN FlipLowBit(sig.v) ELSE sig.v
        recid == recovery_id_from_byte(recovery_id)
        key == recover_from_prehash(msg_hash, r, s, Unwrap(recid))
    IN IF ~IsSome(parsed) THEN [ok |-> FALSE, out |-> Panic("unwrap:197"), hints |-> <<>>]
       ELSE IF ~IsSome(recid) THEN [ok |-> FALSE, out |-> Panic("expect:203"), hints |-> <<>>]
       ELSE IF ~IsSome(key) THEN [ok |-> FALSE, out |-> Panic("unwrap:205"), hints |-> <<>>]
       ELSE [ok |-> TRUE, out |-> NoOutcome,
             hints |-> HintOrder(to_sec1_bytes(Unwrap(key)), to_bytes(ModInv(s, ORDER)))]

\* lines 214-217: io::read_vec().try_into().unwrap() for an array of n bytes
ReadSized(ch, n) ==
    IF Len(ch) = 0 THEN None
    ELSE IF Len(ch[1].bytes) # n THEN None
    ELSE Some(ch[1].bytes)

\* a slip: the decompressed key is returned whatever verify_signature said
Phase2_Unverified(sig, msg_hash, key, s_inv, xread) ==
    LET pubkey == decompress_pubkey(key)
        parsed == signature_from_slice(sig.r, sig.s)
        verified == verify_signature(pubkey.val, msg_hash, Unwrap(parsed)[1],
                                     Unwrap(parsed)[2], Some(s_inv), xread)
    IN IF pubkey.kind = "Err" THEN [out |-> Err("decompress pubkey failed"), verified |-> NoOutcome]
       ELSE IF pubkey.kind = "panic" THEN [out |-> pubkey, verified |-> NoOutcome]
       ELSE IF ~IsSome(parsed) THEN [out |-> Panic("unwrap:229"), verified |-> NoOutcome]
       ELSE IF verified.kind = "panic" THEN [out |-> verified, verified |-> verified]
       ELSE [out |-> Ok(pubkey.val), verified |-> verified]

\* lines 225-236, after the hints were read: decompress, verify, return
Phase2(sig, msg_hash, key, s_inv, xread) ==
    LET pubkey == decompress_pubkey(key)
        parsed == signature_from_slice(sig.r, sig.s)
        verified == verify_signature(pubkey.val, msg_hash, Unwrap(parsed)[1],
                                     Unwrap(parsed)[2], Some(s_inv), xread)
    IN IF pubkey.kind = "Err" THEN [out |-> Err("decompress pubkey failed"), verified |-> NoOutcome]
       ELSE IF pubkey.kind = "panic" THEN [out |-> pubkey, verified |-> NoOutcome]
       ELSE IF ~IsSome(parsed) THEN [out |-> Panic("unwrap:229"), verified |-> NoOutcome]
       ELSE IF verified.kind = "panic" THEN [out |-> verified, verified |-> verified]
       ELSE IF verified.val THEN [out |-> Ok(pubkey.val), verified |-> verified]
       ELSE [out |-> Err("failed to verify signature"), verified |-> verified]

Phase2Reads(sig, msg_hash, key, s_inv) ==
    LET pubkey == decompress_pubkey(key)
        parsed == signature_from_slice(sig.r, sig.s)
    IN IF pubkey.kind = "Ok" /\ IsSome(parsed)
       THEN VerifyReads(pubkey.val, msg_hash, Unwrap(parsed)[1], Unwrap(parsed)[2], Some(s_inv))
       ELSE {0}

----------------------------------------------------------------------------
(* Bounds of the model and the inputs drawn within them. *)

\* recovery-id bytes 0 .. MaxRecId
MaxRecId == 4

\* scalars as they arrive in byte form: every canonical value and the first
\* out-of-range one
WireScalars == 0 .. ORDER
\* public-key coordinates 0 .. MaxCoord: points of the curve, points off it
\* and coordinates that are not below the order
MaxCoord == 8
WireCoords == 0 .. MaxCoord

CurveLimbs == {LimbsOf(P) : P \in CurvePoints}

----------------------------------------------------------------------------
(* double_and_add_base as a state machine: one action per loop iteration.  *)

InitCombine ==
    /\ pc = "loop"
    /\ \E a \in Scalars, b \in Scalars, A \in CurveLimbs, B \in CurveLimbs :
          /\ inp = [a |-> a, b |-> b, A |-> A, B |-> B]
          /\ loop = LoopInit(A, B)
    /\ vst = NoVst
    /\ chan = <<>>
    /\ hint = NoHint
    /\ out = NoOutcome
    /\ calls = 0

\* lines 167-184
CombineStep ==
    /\ pc = "loop"
    /\ loop.i < NUM_BITS
    /\ loop' = LoopBody(loop, inp.a, inp.b)
    /\ UNCHANGED <<pc, inp, vst, chan, hint, out, calls>>

\* line 186
CombineReturn ==
    /\ pc = "loop"
    /\ loop.i = NUM_BITS
    /\ out' = Ret(loop.res)
    /\ pc' = "done"
    /\ UNCHANGED <<inp, loop, vst, chan, hint, calls>>

NextCombine == CombineStep \/ CombineReturn

SpecCombine == InitCombine /\ [][NextCombine]_vars

----------------------------------------------------------------------------
(* verify_signature as a state machine. *)

InitVerify ==
    /\ pc = "v_decode"
    /\ \E x \in WireCoords, y \in WireCoords, h \in WireScalars,
          r \in NonZeroScalars, s \in NonZeroScalars,
          si \in {None} \cup {Some(v) : v \in Scalars} :
          inp = [pubkey |-> <<4>> \o IntToBe(x, NUM_BYTES) \o IntToBe(y, NUM_BYTES),
                 msg_hash |-> IntToBe(h, NUM_BYTES),
                 r |-> r, s |-> s, s_inverse |-> si]
    /\ loop = NoLoop
    /\ vst = NoVst
    /\ chan = <<>>
    /\ hint = NoHint
    /\ out = NoOutcome
    /\ calls = 0

\* lines 90-108
VerifyDecode ==
    /\ pc = "v_decode"
    /\ LET d == DecodeStage(inp.pubkey, inp.msg_hash)
       IN /\ vst' = d.st
          /\ out' = d.out
          /\ pc' = IF d.ok THEN "v_inverse" ELSE "v_done"
    /\ UNCHANGED <<inp, loop, chan, hint, calls>>

\* lines 109-123, and the first lines of double_and_add_base
VerifyInverse ==
    /\ pc = "v_inverse"
    /\ LET v == InverseStage(vst, inp.r, inp.s, inp.s_inverse)
       IN /\ vst' = v.st
          /\ out' = v.out
          /\ pc' = IF v.ok THEN "v_loop" ELSE "v_done"
          /\ loop' = IF v.ok THEN LoopInit(GENERATOR, vst.affine) ELSE loop
    /\ UNCHANGED <<inp, chan, hint, calls>>

\* line 125: one iteration of double_and_add_base
VerifyCombineStep ==
    /\ pc = "v_loop"
    /\ loop.i < NUM_BITS
    /\ loop' = LoopBody(loop, vst.u1, vst.u2)
    /\ UNCHANGED <<pc, inp, vst, chan, hint, out, calls>>

\* lines 125-136
VerifyCompare ==
    /\ pc = "v_loop"
    /\ loop.i = NUM_BITS
    /\ \E xread \in XReads(loop.res) : out' = CompareStage(loop.res, inp.r, xread)
    /\ pc' = "v_done"
    /\ UNCHANGED <<inp, loop, vst, chan, hint, calls>>

NextVerify == VerifyDecode \/ VerifyInverse \/ VerifyCombineStep \/ VerifyCompare

SpecVerify == InitVerify /\ [][NextVerify]_vars

----------------------------------------------------------------------------
(* decompress_pubkey as a state machine. *)

InitDecompress ==
    /\ pc = "d_call"
    /\ \E tag \in 0 .. 4, x \in Repr :
          inp = [compressed_key |-> <<tag>> \o IntToBe(x, NUM_BYTES)]
    /\ loop = NoLoop
    /\ vst = NoVst
    /\ chan = <<>>
    /\ hint = NoHint
    /\ out = NoOutcome
    /\ calls = 0

\* lines 49-66
Decompress ==
    /\ pc = "d_call"
    /\ out' = decompress_pubkey(inp.compressed_key)
    /\ pc' = "d_done"
    /\ UNCHANGED <<inp, loop, vst, chan, hint, calls>>

NextDecompress == Decompress

SpecDecompress == InitDecompress /\ [][NextDecompress]_vars

----------------------------------------------------------------------------
(* ecrecover as a state machine: the unconstrained block, the two reads of *)
(* the hint channel, then decompression and verification.  A panic ends    *)
(* the program.  The block's own hints never pass line 214, so the steps   *)
(* after it are taken only under SpecForged below.                         *)

SigInputs ==
    {[r |-> IntToBe(r, NUM_BYTES), s |-> IntToBe(s, NUM_BYTES), v |-> v] :
        r \in WireScalars, s \in WireScalars, v \in 0 .. MaxRecId}

HashInputs == {IntToBe(h, NUM_BYTES) : h \in WireScalars}

InitRecover ==
    /\ pc = "idle"
    /\ inp = [sig |-> [r |-> <<>>, s |-> <<>>, v |-> 0], msg_hash |-> <<>>]
    /\ loop = NoLoop
    /\ vst = NoVst
    /\ chan = <<>>
    /\ hint = NoHint
    /\ out = NoOutcome
    /\ calls = 0

\* a call of ecrecover(sig, msg_hash)
Call ==
    /\ pc = "idle"
    /\ \E sig \in SigInputs, h \in HashInputs : inp' = [sig |-> sig, msg_hash |-> h]
    /\ calls' = calls + 1
    /\ hint' = NoHint
    /\ out' = NoOutcome
    /\ pc' = "phase1"
    /\ UNCHANGED <<loop, vst, chan>>

\* lines 196-207: the block up to its first io::hint_slice
HintKey ==
    /\ pc = "phase1"
    /\ LET p1 == Phase1(inp.sig, inp.msg_hash)
       IN IF p1.ok
          THEN /\ chan' = Append(chan, [call |-> calls, bytes |-> p1.hints[1]])
               /\ pc' = "phase1_inv"
               /\ out' = out
          ELSE /\ out' = p1.out
               /\ pc' = "aborted"
               /\ chan' = chan
    /\ UNCHANGED <<inp, loop, vst, hint, calls>>

\* lines 209-211: the second io::hint_slice
HintInverse ==
    /\ pc = "phase1_inv"
    /\ chan' = Append(chan, [call |-> calls,
                             bytes |-> Phase1(inp.sig, inp.msg_hash).hints[2]])
    /\ pc' = "read_key"
    /\ UNCHANGED <<inp, loop, vst, hint, out, calls>>

\* line 214
ReadKey ==
    /\ pc = "read_key"
    /\ LET got == ReadSized(chan, NUM_BYTES + 1)
       IN IF IsSome(got)
          THEN /\ hint' = [hint EXCEPT !.key = Unwrap(got)]
               /\ chan' = Tail(chan)
               /\ pc' = "read_inv"
               /\ out' = out
          ELSE /\ out' = Panic("unwrap:214")
               /\ pc' = "aborted"
               /\ UNCHANGED <<hint, chan>>
    /\ UNCHANGED <<inp, loop, vst, calls>>

\* lines 216-217
ReadInverse ==
    /\ pc = "read_inv"
    /\ LET got == ReadSized(chan, NUM_BYTES)
       IN IF ~IsSome(got)
          THEN /\ out' = Panic("unwrap:216")
               /\ pc' = "aborted"
               /\ UNCHANGED <<hint, chan>>
          ELSE IF ~IsSome(from_repr(Unwrap(bits2field(Unwrap(got)))))
          THEN /\ out' = Panic("unwrap:217")
               /\ pc' = "aborted"
               /\ chan' = Tail(chan)
               /\ hint' = [hint EXCEPT !.s_inv = Unwrap(got)]
          ELSE /\ hint' = [hint EXCEPT !.s_inv = Unwrap(got)]
               /\ chan' = Tail(chan)
               /\ pc' = "phase2"
               /\ out' = out
    /\ UNCHANGED <<inp, loop, vst, calls>>

\* lines 225-236
Finish ==
    /\ pc = "phase2"
    /\ \E xread \in Phase2Reads(inp.sig, inp.msg_hash, hint.key, BeToInt(hint.s_inv)) :
         LET p2 == Phase2(inp.sig, inp.msg_hash, hint.key, BeToInt(hint.s_inv), xread)
         IN /\ out' = p2.out
            /\ vst' = [pubkey |-> decompress_pubkey(hint.key), verified |-> p2.verified]
            /\ pc' = IF p2.out.kind = "panic" THEN "aborted" ELSE "returned"
    /\ UNCHANGED <<inp, loop, chan, hint, calls>>

NextRecover == Call \/ HintKey \/ HintInverse \/ ReadKey

SpecRecover == InitRecover /\ [][NextRecover]_vars

----------------------------------------------------------------------------
(* ecrecover with an untrusted host: the unconstrained block's output is   *)
(* not constrained, so the two entries on the channel are any pair: keys   *)
(* of the size line 214 expects and keys of the size to_sec1_bytes gives.  *)

ForgedKeys ==
    {<<tag>> \o IntToBe(x, NUM_BYTES) : tag \in {2, 3, 4}, x \in WireCoords}
        \cup {to_sec1_bytes(P) : P \in CurvePoints}
ForgedInverses == {IntToBe(v, NUM_BYTES) : v \in WireScalars}

InitForged ==
    /\ pc = "phase1"
    /\ \E r \in NonZeroScalars, s \in NonZeroScalars, h \in HashInputs :
          inp = [sig |-> [r |-> IntToBe(r, NUM_BYTES), s |-> IntToBe(s, NUM_BYTES), v |-> 0],
                 msg_hash |-> h]
    /\ loop = NoLoop
    /\ vst = NoVst
    /\ chan = <<>>
    /\ hint = NoHint
    /\ out = NoOutcome
    /\ calls = 1

\* the host's two entries in place of lines 196-211
ForgedHints ==
    /\ pc = "phase1"
    /\ \E k \in ForgedKeys, si \in ForgedInverses :
          chan' = chan \o <<[call |-> calls, bytes |-> k], [call |-> calls, bytes |-> si]>>
    /\ pc' = "read_key"
    /\ UNCHANGED <<inp, loop, vst, hint, out, calls>>

NextForged == ForgedHints \/ ReadKey \/ ReadInverse \/ Finish

SpecForged == InitForged /\ [][NextForged]_vars

----------------------------------------------------------------------------
(* The Shamir combinator. *)

\* the group sum a.A + b.B by two independent multiplications, as an
\* optional packed point
ReferenceSum(a, A, b, B) ==
    LET sum == GroupAdd(ScalarMul(a, PointOf(A)), ScalarMul(b, PointOf(B)))
    IN IF sum = Inf THEN None ELSE Some(LimbsOf(sum))

\* C6: for all scalars a, b and curve points A, B, double_and_add_base
\* returns the group sum a.A + b.B of two independent scalar
\* multiplications (b.B when a = 0, a.A when b = 0, empty when a = b = 0).
C6_CombineIsGroupSum ==
    pc = "done" => out.val = ReferenceSum(inp.a, inp.A, inp.b, inp.B)

\* C10: the result of double_and_add_base is empty exactly when a = b = 0:
\* the accumulator is empty as long as every bit seen so far is zero, the
\* first set bit initialises it to the running copy of A or B as it is
\* (2^i.A or 2^i.B, no addition), and once non-empty it stays non-empty.
C10_EmptyUntilFirstSetBit ==
    pc \in {"loop", "done"} =>
        /\ ~IsSome(loop.res) <=> (inp.a % (2 ^ loop.i) = 0 /\ inp.b % (2 ^ loop.i) = 0)
        /\ pc = "done" => (~IsSome(out.val) <=> (inp.a = 0 /\ inp.b = 0))

C10_FirstSetBitCopies ==
    (pc = "loop" /\ ~IsSome(loop.res) /\ IsSome(loop'.res)) =>
        LET a_bit == to_le_bits(inp.a)[loop.i + 1]
            b_bit == to_le_bits(inp.b)[loop.i + 1]
        IN /\ (a_bit = 1 /\ b_bit = 0) => loop'.res = Some(loop.temp_A)
           /\ (a_bit = 0 /\ b_bit = 1) => loop'.res = Some(loop.temp_B)
           /\ (a_bit = 1 /\ b_bit = 1) => loop'.res = Some(add_assign(loop.temp_A, loop.temp_B))
           /\ loop.temp_A = LimbsOf(ScalarMul(2 ^ loop.i, PointOf(inp.A)))
           /\ loop.temp_B = LimbsOf(ScalarMul(2 ^ loop.i, PointOf(inp.B)))

C10_AccumulatorEmptiness ==
    /\ []C10_EmptyUntilFirstSetBit
    /\ [][C10_FirstSetBitCopies /\ (IsSome(loop.res) => IsSome(loop'.res))]_vars

\* the accumulator was initialised at a later bit and by the second scalar
C10_Witness ==
    pc = "done" /\ inp.a = 0 /\ inp.b = 4 /\ IsSome(out.val)

----------------------------------------------------------------------------
(* verify_signature. *)

PubX == BeToInt(SubSeq(inp.pubkey, 2, NUM_BYTES + 1))
PubY == BeToInt(SubSeq(inp.pubkey, NUM_BYTES + 2, 2 * NUM_BYTES + 1))
HashValue == BeToInt(inp.msg_hash)

\* no inverse supplied, or one that satisfies inverse * s = 1 (mod order)
InverseAbsentOrCorrect ==
    ~IsSome(inp.s_inverse) \/ (Unwrap(inp.s_inverse) * inp.s) % ORDER = 1

InverseBad == ~InverseAbsentOrCorrect

\* a coordinate or the hash is not the canonical encoding of a scalar
OutOfRangeEncoding == PubX >= ORDER \/ PubY >= ORDER \/ HashValue >= ORDER

\* C4: with no inverse or a correct one, verify_signature returns a
\* boolean for every public key, hash and signature, and that boolean is
\* false when a coordinate or the hash is an out-of-range encoding.
C4_VerifyOnlyAbortsOnInverse ==
    (pc = "v_done" /\ InverseAbsentOrCorrect) =>
        /\ out.kind = "ret"
        /\ OutOfRangeEncoding => out.val = FALSE

\* C5: a supplied inverse with inverse * s # 1 (mod order) never yields a
\* returned boolean and no curve arithmetic is done for it: the call
\* aborts, on the inverse assertion whenever the encodings decoded; a
\* supplied inverse that satisfies the identity is the one used, and with
\* none supplied the inverse of s is.
C5_InverseContract ==
    /\ InverseBad =>
          /\ pc # "v_loop"
          /\ loop = NoLoop
          /\ pc = "v_done" =>
                /\ out.kind = "panic"
                /\ ~OutOfRangeEncoding => out = Panic("assert_eq:113")
    /\ pc = "v_loop" =>
          /\ (vst.s_inv * inp.s) % ORDER = 1
          /\ IsSome(inp.s_inverse) => vst.s_inv = Unwrap(inp.s_inverse)
          /\ vst.u1 = (HashValue * vst.s_inv) % ORDER
          /\ vst.u2 = (inp.r * vst.s_inv) % ORDER

\* a wrong inverse reached step 3 and was refused there
C5_Witness ==
    pc = "v_done" /\ InverseBad /\ out = Panic("assert_eq:113")

\* (r, s) signs the hash under the private key d with the nonce k
Signs(d, k, hash, r, s) ==
    LET R == ScalarMul(k, G)
        z == BeToInt(hash) % ORDER
    IN /\ r = R[1] % ORDER
       /\ s = (ModInv(k, ORDER) * (z + r * d)) % ORDER
       /\ r # 0
       /\ s # 0

\* C7: a signature of the hash made with a valid private key d verifies
\* under the public key of d, with no inverse supplied or a correct one.
C7_SignThenVerify ==
    (pc = "v_done" /\ InverseAbsentOrCorrect) =>
        \A d \in NonZeroScalars, k \in NonZeroScalars :
            (inp.pubkey = Uncompressed(ScalarMul(d, G))
             /\ Signs(d, k, inp.msg_hash, inp.r, inp.s)) => out = Ret(TRUE)

----------------------------------------------------------------------------
(* decompress_pubkey. *)

\* C9: for every point P of the curve, of either y parity, decompress_pubkey
\* of the compressed encoding of P (parity byte 2 or 3, then big-endian x)
\* returns 0x04 || x || y with P's own x and y; a first byte other than 2
\* or 3 gives the invalid-encoding error and no key.
C9_DecompressRoundTrip ==
    pc = "d_done" =>
        /\ \A P \in CurvePoints :
              inp.compressed_key = <<2 + (P[2] % 2)>> \o IntToBe(P[1], NUM_BYTES)
                  => out = Ok(<<4>> \o IntToBe(P[1], NUM_BYTES) \o IntToBe(P[2], NUM_BYTES))
        /\ inp.compressed_key[1] \notin {2, 3} => out = Err("Invalid compressed key")

\* a point of odd y was decompressed
C9_Witness ==
    /\ pc = "d_done"
    /\ out.kind = "Ok"
    /\ inp.compressed_key[1] = 3
    /\ \E P \in CurvePoints : out.val = Uncompressed(P) /\ P[2] % 2 = 1

----------------------------------------------------------------------------
(* ecrecover. *)

Finished == pc \in {"returned", "aborted"}

\* the recoverable signature of the hash made with the private key d and
\* the nonce k, in its low-s or high-s form: r, s and the recovery id
RecoverableSig(d, k, hash, high) ==
    LET R == ScalarMul(k, G)
        z == BeToInt(hash) % ORDER
        r == R[1] % ORDER
        s0 == (ModInv(k, ORDER) * (z + r * d)) % ORDER
        low == IF s0 > ORDER \div 2 THEN ORDER - s0 ELSE s0
        v0 == (R[2] % 2) + (IF R[1] >= ORDER THEN 2 ELSE 0)
        vlow == IF s0 = low THEN v0 ELSE FlipLowBit(v0)
    IN [valid |-> r # 0 /\ s0 # 0,
        sig |-> [r |-> IntToBe(r, NUM_BYTES),
                 s |-> IntToBe(IF high THEN ORDER - low ELSE low, NUM_BYTES),
                 v |-> IF high THEN FlipLowBit(vlow) ELSE vlow]]

\* C1: for every valid private key and message hash and every valid
\* recoverable signature of the hash (low-s or high-s, with its recovery
\* id), ecrecover returns Ok with the uncompressed public key of the
\* private key.
C1_RecoverReturnsSignerKey ==
    Finished =>
        \A d \in NonZeroScalars, k \in NonZeroScalars, high \in BOOLEAN :
            LET rs == RecoverableSig(d, k, inp.msg_hash, high)
            IN (rs.valid /\ inp.sig = rs.sig) => out = Ok(Uncompressed(ScalarMul(d, G)))

\* C8: the hint channel of a call is an ordered exactly-once queue: before
\* the first read it holds exactly the two entries of this call, the
\* compressed key and then the inverse scalar; the reads take the key and
\* then the inverse; nothing is left when the call ends, so no call reads
\* an entry written by another.
C8_HintChannelExactlyOnce ==
    /\ pc \in {"idle", "phase1", "phase2", "returned", "aborted"} => chan = <<>>
    /\ pc = "phase1_inv" =>
          /\ Len(chan) = 1
          /\ chan[1].call = calls
          /\ Len(chan[1].bytes) = NUM_BYTES + 1
          /\ hint = NoHint
    /\ pc = "read_key" =>
          /\ Len(chan) = 2
          /\ chan[1].call = calls /\ chan[2].call = calls
          /\ Len(chan[1].bytes) = NUM_BYTES + 1 /\ chan[1].bytes[1] \in {2, 3}
          /\ Len(chan[2].bytes) = NUM_BYTES
          /\ hint = NoHint
    /\ pc = "read_inv" =>
          /\ Len(chan) = 1
          /\ chan[1].call = calls
          /\ Len(chan[1].bytes) = NUM_BYTES
          /\ Len(hint.key) = NUM_BYTES + 1 /\ hint.key[1] \in {2, 3}
          /\ hint.s_inv = <<>>
    /\ pc = "phase2" =>
          /\ Len(hint.key) = NUM_BYTES + 1 /\ hint.key[1] \in {2, 3}
          /\ Len(hint.s_inv) = NUM_BYTES
    /\ pc = "aborted" => out.val \notin {"unwrap:214", "unwrap:216", "unwrap:217"}

\* the original (r, s) of the input signature
SigR == BeToInt(inp.sig.r)
SigS == BeToInt(inp.sig.s)

\* C2: ecrecover returns Ok(key) only for the decompressed hinted key and
\* only when verify_signature returned true for that key, the hash, the
\* original (r, s) and the hinted inverse; when verify_signature returned
\* false it returns the verification error and no key.
C2_OkOnlyAfterVerify ==
    Finished =>
        /\ out.kind = "Ok" =>
              /\ vst.verified = Ret(TRUE)
              /\ decompress_pubkey(hint.key) = Ok(out.val)
              /\ \E xread \in Repr :
                    verify_signature(out.val, inp.msg_hash, SigR, SigS,
                                     Some(BeToInt(hint.s_inv)), xread) = Ret(TRUE)
        /\ (pc = "returned" /\ out.kind # "Ok" /\ decompress_pubkey(hint.key).kind = "Ok")
              => (vst.verified = Ret(FALSE) /\ out = Err("failed to verify signature"))
        /\ (Len(hint.s_inv) = NUM_BYTES /\ BeToInt(hint.s_inv) < ORDER
            /\ decompress_pubkey(hint.key).kind = "Ok"
            /\ \A xread \in Phase2Reads(inp.sig, inp.msg_hash, hint.key, BeToInt(hint.s_inv)) :
                  verify_signature(decompress_pubkey(hint.key).val, inp.msg_hash, SigR, SigS,
                                   Some(BeToInt(hint.s_inv)), xread) = Ret(FALSE))
              => out = Err("failed to verify signature")

\* a key was returned
C2_Witness ==
    pc = "returned" /\ out.kind = "Ok" /\ vst.verified = Ret(TRUE)

\* the hinted pair has the expected sizes and a parity byte of 2 or 3
PlausiblePair ==
    /\ Len(hint.key) = NUM_BYTES + 1
    /\ hint.key[1] \in {2, 3}
    /\ Len(hint.s_inv) = NUM_BYTES

\* the hinted scalar is not the inverse of the signature's s
WrongInverse == (BeToInt(hint.s_inv) * SigS) % ORDER # 1

\* the hinted key is not the key the signature recovers to
WrongKey ==
    \A v \in 0 .. 3 :
        LET key == recover_from_prehash(inp.msg_hash, SigR, SigS, v)
        IN IsSome(key) => hint.key # Compressed(Unwrap(key))

\* C3 as claimed: a correctly sized, plausible but wrong hint pair (wrong
\* key, wrong inverse, or both) ends ecrecover with the verification error,
\* never with a panic.
C3_WrongHintIsTypedError ==
    (Finished /\ PlausiblePair /\ (WrongKey \/ WrongInverse))
        => out = Err("failed to verify signature")

\* C3 as amended: a plausible pair whose scalar is not the inverse of s never
\* makes ecrecover return: the call aborts, on verify_signature's inverse
\* assertion whenever the key decompresses and every encoding decodes; the
\* verification error is returned only for a pair whose inverse is correct
\* and whose key verify_signature rejected.
C3_WrongInverseAborts ==
    Finished =>
        /\ (PlausiblePair /\ WrongInverse) =>
              /\ out.kind = "panic"
              /\ (/\ decompress_pubkey(hint.key).kind = "Ok"
                  /\ BeToInt(hint.s_inv) < ORDER
                  /\ BeToInt(inp.msg_hash) < ORDER
                  /\ BeToInt(SubSeq(decompress_pubkey(hint.key).val, 2, NUM_BYTES + 1)) < ORDER
                  /\ BeToInt(SubSeq(decompress_pubkey(hint.key).val, NUM_BYTES + 2,
                                    2 * NUM_BYTES + 1)) < ORDER)
                    => out = Panic("assert_eq:113")
        /\ out = Err("failed to verify signature") =>
              (PlausiblePair /\ ~WrongInverse /\ vst.verified = Ret(FALSE))

\* the right key with a wrong inverse was refused by the assertion
C3_Witness ==
    /\ pc = "aborted"
    /\ PlausiblePair
    /\ ~WrongKey
    /\ WrongInverse
    /\ out = Panic("assert_eq:113")

====
